---- MODULE Spec2Model ----
(***************************************************************************)
(* Model of hmalib/lambdas/api/api_root.py: the lambda entry point that    *)
(* either forwards an invocation to the bottle application (HTTP branch)   *)
(* or converts an S3 event into content submissions (S3 branch).           *)
(*                                                                         *)
(* Python dicts are TLA+ records: a key of the dict is a field of the      *)
(* record, `"k" in d` is "k" \in DOMAIN d, and a missing key is a missing  *)
(* field (reading it raises KeyError in the code).  Python strings that    *)
(* are concatenated or searched (bucket names, object keys, content ids)   *)
(* are sequences of one-character strings.  A request path is the sequence *)
(* of its "/"-separated segments after the leading "/":                    *)
(*    "/" = <<"">>,  "/matches" = <<"matches">>,                           *)
(*    "/matches/" = <<"matches", "">>,  "/matches/x" = <<"matches", "x">>. *)
(***************************************************************************)
EXTENDS Integers, Sequences, FiniteSets, TLC

VARIABLES
    pc,          \* position of the lambda: idle, process_s3_event, returned, raised
    event,       \* the payload of the current invocation
    context,     \* the execution context of the current invocation
    branch,      \* which branch lambda_handler took: none, s3, http
    idx,         \* position of the for loop of process_s3_event in event.Records
    calls,       \* collaborator calls made by the S3 branch, in order
    serial,      \* number of presigned URLs issued in this invocation
    httpCalls,   \* calls of apig_wsgi_handler made by this invocation
    handlerOut,  \* what apig_wsgi_handler gave back to lambda_handler
    fault,       \* the exception a sub-application's handler raised, or None
    result,      \* what lambda_handler returned, or the exception that escaped it
    log,         \* logger output of this invocation
    pairIn,      \* translator study: two records
    pairOut      \* translator study: the two requests made from pairIn

vars == <<pc, event, context, branch, idx, calls, serial, httpCalls,
          handlerOut, fault, result, log, pairIn, pairOut>>

\* ---------------------------------------------------------------- bounds

\* Longest batch of records in one S3 event.
MaxRecords == 3

\* Longest bucket name and object key of the translator study.
MaxLen == 2

\* ---------------------------------------------------------------- values

None == [NoneType |-> TRUE]

Pending == [pending |-> TRUE]

KeyError(k) == [exception |-> "KeyError", key |-> k]

SeqsUpTo(S, n) == UNION {[1..k -> S] : k \in 0..n}

\* the "in" operator of Python on a dict
HasKey(d, k) == k \in DOMAIN d

\* Bucket names and object keys of the events of the main specification.
BucketNames == {<<"i", "m", "g", "s">>, <<"b">>}

ObjectKeys == {<<"a", ".", "j", "p", "g">>, <<"d", "/", "k">>}

ObjectSizes == {0, 1234}

WellFormedRecords ==
    {[s3 |-> [bucket |-> [name |-> b], object |-> [key |-> k, size |-> s]]] :
        b \in BucketNames, k \in ObjectKeys, s \in ObjectSizes}

\* Records with an "s3" key and an expected key missing below it.
MalformedRecords ==
    {[s3 |-> [object |-> [key |-> <<"d", "/", "k">>, size |-> s]]] : s \in ObjectSizes}
    \cup {[s3 |-> [bucket |-> [name |-> <<"b">>], object |-> [size |-> s]]] : s \in ObjectSizes}
    \cup {[s3 |-> [bucket |-> [name |-> <<"b">>], object |-> [key |-> <<"d", "/", "k">>]]],
          [s3 |-> [bucket |-> [name |-> <<"b">>]]]}

\* Records of another event source: no "s3" key.
ForeignRecords == {[Sns |-> [Message |-> "m"]]}

AllRecords == WellFormedRecords \cup MalformedRecords \cup ForeignRecords

S3LikeEvents == {[Records |-> rs] : rs \in SeqsUpTo(AllRecords, MaxRecords)}

HttpMethods == {"GET", "POST"}

FirstSegments == {"action-rules", "matches", "content", "submit", "datasets",
                  "stats", "actions", "unknown"}

Paths == {<<"">>} \cup {<<s>> : s \in FirstSegments}
         \cup {<<s, t>> : s \in FirstSegments, t \in {"", "x"}}

HttpEvents == {[httpMethod |-> m, path |-> p] : m \in HttpMethods, p \in Paths}

Events == S3LikeEvents \cup HttpEvents

Contexts == {"ctx1", "ctx2"}

\* What a mounted sub-application does with a request it owns: it answers,
\* or one of its handlers raises.
SubAppOutcomes ==
    {[kind |-> "response",
      response |-> [status |-> 200, content_type |-> "application/json", body |-> "{}"]],
     [kind |-> "raise", exception |-> [exception |-> "KeyError", key |-> "content_id"]],
     [kind |-> "raise", exception |-> [exception |-> "ClientError", key |-> "hma-secret-table"]]}

\* ---------------------------------------------------------------- HTTP path

JSON == "application/json"

\* Mutant: the 404 override is missing, bottle renders its HTML page.
error404_html(e) ==
    [content_type |-> "text/html; charset=UTF-8",
     body |-> "<!DOCTYPE HTML><html><body><h1>Error: 404 Not Found</h1></body></html>",
     log |-> <<>>]

\* @error(404): logs the error, declares JSON, returns the fixed body.
error404(e) ==
    [content_type |-> JSON,
     body |-> "{\"error\": \"404\"}",
     log |-> <<[level |-> "error", msg |-> e]>>]

\* @error(405)
error405(e) ==
    [content_type |-> JSON,
     body |-> "{\"error\": \"405\"}",
     log |-> <<[level |-> "error", msg |-> e]>>]

\* Mutant: the 500 body carries the text of the exception.
error500_echo(e) ==
    [content_type |-> JSON,
     body |-> e.exception.key,
     log |-> <<[level |-> "exception", msg |-> "Exception raised",
                exc_info |-> e.exception]>>]

\* @error(500): logs the exception with its trace; the body does not use e.
error500(e) ==
    [content_type |-> JSON,
     body |-> "{\"error\": \"500\"}",
     log |-> <<[level |-> "exception", msg |-> "Exception raised",
                exc_info |-> e.exception]>>]

\* @app.get("/"): the dict bottle serialises as JSON.
root ==
    [content_type |-> JSON, body |-> "{\"message\": \"Hello World, HMA\"}"]

\* app.mount(prefix, ...): the mounted prefixes, as paths.
Mounts ==
    {<<"action-rules", "">>, <<"matches", "">>, <<"content", "">>, <<"submit", "">>,
     <<"datasets", "">>, <<"stats", "">>, <<"actions", "">>}

\* string prefix on paths: every segment of the prefix but its last equals the
\* path's, and the last segment of a mounted prefix is empty (a trailing "/").
IsPathPrefix(prefix, path) ==
    /\ Len(path) >= Len(prefix)
    /\ \A i \in 1..(Len(prefix) - 1) : path[i] = prefix[i]
    /\ prefix[Len(prefix)] = ""

OwnedByMount(path) == \E m \in Mounts : IsPathPrefix(m, path)

\* The application's dispatch of one request: the root route, the mounted
\* sub-applications, and the error handlers registered above.
app(request, outcome) ==
    IF request.path = <<"">>
    THEN IF request.method = "GET"
         THEN [response |-> [status |-> 200, content_type |-> root.content_type,
                             body |-> root.body],
               log |-> <<>>, fault |-> None]
         ELSE LET r == error405([status |-> 405, path |-> request.path,
                                 method |-> request.method])
              IN [response |-> [status |-> 405, content_type |-> r.content_type,
                                body |-> r.body],
                  log |-> r.log, fault |-> None]
    ELSE IF OwnedByMount(request.path)
    THEN IF outcome.kind = "response"
         THEN [response |-> outcome.response, log |-> <<>>, fault |-> None]
         ELSE LET r == error500([status |-> 500, exception |-> outcome.exception])
              IN [response |-> [status |-> 500, content_type |-> r.content_type,
                                body |-> r.body],
                  log |-> r.log, fault |-> outcome.exception]
    ELSE LET r == error404([status |-> 404, path |-> request.path])
         IN [response |-> [status |-> 404, content_type |-> r.content_type,
                           body |-> r.body],
             log |-> r.log, fault |-> None]

\* make_lambda_handler(app): turns the event into a request and runs the
\* application; an event that is no HTTP request has no "httpMethod".
apig_wsgi_handler(ev, ctx, outcome) ==
    IF HasKey(ev, "httpMethod") /\ HasKey(ev, "path")
    THEN app([method |-> ev.httpMethod, path |-> ev.path], outcome)
    ELSE [raised |-> KeyError("httpMethod"), log |-> <<>>, fault |-> None]

\* ---------------------------------------------------------------- S3 path

\* Mutant: an empty Records collection is not taken for an S3 event.
is_s3_event_nonempty(ev) ==
    /\ HasKey(ev, "Records")
    /\ Len(ev.Records) > 0
    /\ \A i \in 1..Len(ev.Records) : HasKey(ev.Records[i], "s3")

\* Mutant: any() in the place of all().
is_s3_event_any(ev) ==
    /\ HasKey(ev, "Records")
    /\ \E i \in 1..Len(ev.Records) : HasKey(ev.Records[i], "s3")

\* "Records" in event and all("s3" in record for record in event["Records"])
is_s3_event(ev) ==
    /\ HasKey(ev, "Records")
    /\ \A i \in 1..Len(ev.Records) : HasKey(ev.Records[i], "s3")

\* create_presigned_url(bucket, key, version, expiration, client_method): the
\* n-th URL issued in this invocation.
create_presigned_url(bucket, key, version, expiration, method, n) ==
    [bucket |-> bucket, key |-> key, version |-> version,
     expires_in |-> expiration, client_method |-> method, issue |-> n]

\* Mutant: the bucket name is left out of the content id.
ContentIdKeyOnly(bucket, key) == key

\* Mutant: the separator is left out of the content id.
ContentIdNoSeparator(bucket, key) == bucket \o key

\* content_id = bucket + "/" + key
ContentId(bucket, key) == bucket \o <<"/">> \o key

\* The translator, on the "s3" sub-record; n numbers the URL it asks for.
\* Gives the arguments of its create_presigned_url call and the request, or
\* the KeyError of the first missing key.
submit_content_request_from_s3_event_record(record, n) ==
    IF ~HasKey(record, "bucket") THEN [raised |-> KeyError("bucket")]
    ELSE IF ~HasKey(record.bucket, "name") THEN [raised |-> KeyError("name")]
    ELSE IF ~HasKey(record, "object") THEN [raised |-> KeyError("object")]
    ELSE IF ~HasKey(record.object, "key") THEN [raised |-> KeyError("key")]
    ELSE LET bucket == record.bucket.name
             key == record.object.key
             content_id == ContentId(bucket, key)
             url == create_presigned_url(bucket, key, None, 3600, "get_object", n)
         IN [presign |-> [bucket |-> bucket, key |-> key, version |-> None,
                          expiration |-> 3600, client_method |-> "get_object"],
             request |-> [submission_type |-> "FROM_URL",
                          content_id |-> content_id,
                          content_type |-> "PHOTO",
                          content_bytes_url_or_file_type |-> url,
                          additional_fields |-> None]]

\* Mutant: empty objects are not skipped.
IsEmptyObject_never(record) == FALSE

\* record["object"]["size"] == 0, on the "s3" sub-record
IsEmptyObject(record) == record.object.size = 0

\* Mutant: the loop steps over every other record.
NextRecordSkip(i) == i + 2

\* the for loop's step to the record after the i-th
NextRecord(i) == i + 1

\* The calls one record that is neither empty nor malformed gives rise to, in
\* the order the loop body makes them; tr is what the translator gave.
CallsFor(i, tr) ==
    <<[op |-> "translate", idx |-> i],
      [op |-> "create_presigned_url", idx |-> i, args |-> tr.presign],
      [op |-> "submit_from_url", idx |-> i, request |-> tr.request,
       dynamodb_table |-> "DYNAMODB_TABLE", images_topic_arn |-> "IMAGES_TOPIC_ARN"]>>

Quiet == [calls |-> <<>>, issued |-> 0, log |-> <<>>]

\* One turn of the loop of process_s3_event on the i-th element of Records,
\* n URLs having been issued before.  urlOk and submitOk are what the two
\* collaborators do: return, or raise.  Nothing in the loop catches.
LoopBody(rec, i, n, urlOk, submitOk) ==
    IF ~HasKey(rec, "s3") THEN Quiet @@ [raised |-> KeyError("s3")]
    ELSE LET record == rec.s3 IN
    IF ~HasKey(record, "object") THEN Quiet @@ [raised |-> KeyError("object")]
    ELSE IF ~HasKey(record.object, "size") THEN Quiet @@ [raised |-> KeyError("size")]
    ELSE IF IsEmptyObject(record) THEN Quiet
    ELSE LET tr == submit_content_request_from_s3_event_record(record, n + 1) IN
    IF HasKey(tr, "raised")
    THEN [calls |-> <<[op |-> "translate", idx |-> i]>>, issued |-> 0, log |-> <<>>,
          raised |-> tr.raised]
    ELSE IF ~urlOk
    THEN [calls |-> SubSeq(CallsFor(i, tr), 1, 2), issued |-> 0, log |-> <<>>,
          raised |-> [exception |-> "ClientError", key |-> "create_presigned_url"]]
    ELSE IF ~submitOk
    THEN [calls |-> CallsFor(i, tr), issued |-> 1, log |-> <<>>,
          raised |-> [exception |-> "ClientError", key |-> "submit_from_url"]]
    ELSE [calls |-> CallsFor(i, tr), issued |-> 1,
          log |-> <<[level |-> "info",
                     msg |-> "Sucessfully submitted s3 event record as url upload."]>>]

\* Mutant: the handler's response is dropped, None is returned.
HttpBranch_dropsResponse(ev, ctx, outcome) ==
    LET r == apig_wsgi_handler(ev, ctx, outcome)
        out == IF HasKey(r, "raised") THEN r.raised ELSE r.response
    IN [passed |-> [event |-> ev, context |-> ctx],
        out |-> out,
        returned |-> IF HasKey(r, "raised") THEN r.raised ELSE None,
        raised |-> HasKey(r, "raised"),
        fault |-> r.fault,
        log |-> r.log]

\* The HTTP branch of lambda_handler: the handler is given the event and the
\* context, and what it gives back is returned.
HttpBranch(ev, ctx, outcome) ==
    LET r == apig_wsgi_handler(ev, ctx, outcome)
        out == IF HasKey(r, "raised") THEN r.raised ELSE r.response
    IN [passed |-> [event |-> ev, context |-> ctx],
        out |-> out,
        returned |-> out,
        raised |-> HasKey(r, "raised"),
        fault |-> r.fault,
        log |-> r.log]

\* ---------------------------------------------------------------- actions

Init ==
    /\ pc = "idle"
    /\ event = None
    /\ context = None
    /\ branch = "none"
    /\ idx = 1
    /\ calls = <<>>
    /\ serial = 0
    /\ httpCalls = <<>>
    /\ handlerOut = Pending
    /\ fault = None
    /\ result = Pending
    /\ log = <<>>
    /\ pairIn = <<>>
    /\ pairOut = <<>>

\* lambda_handler(event, context), up to the entry of the loop on the S3
\* branch and up to its return on the HTTP branch.
lambda_handler(ev, ctx, outcome) ==
    /\ pc = "idle"
    /\ event' = ev
    /\ context' = ctx
    /\ IF is_s3_event(ev)
       THEN /\ branch' = "s3"
            /\ pc' = "process_s3_event"
            /\ idx' = 1
            /\ log' = <<[level |-> "info",
                         msg |-> "Lambda triggered with S3 event. Converting to submit content request."]>>
            /\ UNCHANGED <<httpCalls, handlerOut, fault, result>>
       ELSE LET h == HttpBranch(ev, ctx, outcome) IN
            /\ branch' = "http"
            /\ httpCalls' = Append(httpCalls, h.passed)
            /\ handlerOut' = h.out
            /\ fault' = h.fault
            /\ result' = h.returned
            /\ pc' = IF h.raised THEN "raised" ELSE "returned"
            /\ log' = h.log
            /\ idx' = idx
    /\ UNCHANGED <<calls, serial, pairIn, pairOut>>

\* One turn of the for loop of process_s3_event.
process_s3_event(urlOk, submitOk) ==
    /\ pc = "process_s3_event"
    /\ idx <= Len(event.Records)
    /\ LET turn == LoopBody(event.Records[idx], idx, serial, urlOk, submitOk) IN
        /\ calls' = calls \o turn.calls
        /\ serial' = serial + turn.issued
        /\ log' = log \o turn.log
        /\ IF HasKey(turn, "raised")
           THEN pc' = "raised" /\ result' = turn.raised /\ idx' = idx
           ELSE pc' = pc /\ result' = result /\ idx' = NextRecord(idx)
    /\ UNCHANGED <<event, context, branch, httpCalls, handlerOut, fault, pairIn, pairOut>>

\* The loop is over: process_s3_event returns None and so does lambda_handler.
process_s3_event_return ==
    /\ pc = "process_s3_event"
    /\ idx > Len(event.Records)
    /\ pc' = "returned"
    /\ result' = None
    /\ UNCHANGED <<event, context, branch, idx, calls, serial, httpCalls, handlerOut,
                   fault, log, pairIn, pairOut>>

\* The invocation is over; the instance waits for the next one.
invocation_end ==
    /\ pc \in {"returned", "raised"}
    /\ pc' = "idle"
    /\ event' = None
    /\ context' = None
    /\ branch' = "none"
    /\ idx' = 1
    /\ calls' = <<>>
    /\ serial' = 0
    /\ httpCalls' = <<>>
    /\ handlerOut' = Pending
    /\ fault' = None
    /\ result' = Pending
    /\ log' = <<>>
    /\ UNCHANGED <<pairIn, pairOut>>

Next ==
    \/ /\ pc = "idle"
       /\ \E ev \in Events, ctx \in Contexts, outcome \in SubAppOutcomes :
              lambda_handler(ev, ctx, outcome)
    \/ \E urlOk \in BOOLEAN, submitOk \in BOOLEAN : process_s3_event(urlOk, submitOk)
    \/ process_s3_event_return
    \/ invocation_end

Spec == Init /\ [][Next]_vars

\* ---------------------------------------------------------------- translator study

Alphabet == {"a", "/"}

Names == SeqsUpTo(Alphabet, MaxLen) \ {<<>>}

StudyRecords ==
    {[bucket |-> [name |-> b], object |-> [key |-> k, size |-> 1234]] :
        b \in Names, k \in Names}

InitId ==
    /\ pc = "idle"
    /\ event = None
    /\ context = None
    /\ branch = "none"
    /\ idx = 1
    /\ calls = <<>>
    /\ serial = 0
    /\ httpCalls = <<>>
    /\ handlerOut = Pending
    /\ fault = None
    /\ result = Pending
    /\ log = <<>>
    /\ pairIn \in StudyRecords \X StudyRecords
    /\ pairOut = <<>>

\* The translator applied to the two records.
translate_pair ==
    /\ pairOut = <<>>
    /\ pairOut' = <<submit_content_request_from_s3_event_record(pairIn[1], 1).request,
                    submit_content_request_from_s3_event_record(pairIn[2], 2).request>>
    /\ UNCHANGED <<pc, event, context, branch, idx, calls, serial, httpCalls,
                   handlerOut, fault, result, log, pairIn>>

NextId == translate_pair

SpecId == InitId /\ [][NextId]_vars

\* ---------------------------------------------------------------- properties

\* the payload has a Records collection whose every element has an "s3" key
AllRecordsHaveS3 ==
    /\ HasKey(event, "Records")
    /\ \A i \in 1..Len(event.Records) : HasKey(event.Records[i], "s3")

\* the payload has a Records collection with an element that has no "s3" key
SomeRecordLacksS3 ==
    /\ HasKey(event, "Records")
    /\ \E i \in 1..Len(event.Records) : ~HasKey(event.Records[i], "s3")

\* C1: lambda_handler takes the S3 branch if and only if the payload has a
\* Records collection whose every element has an "s3" key, and hands every
\* other payload to the HTTP handler; a payload with an empty Records
\* collection takes the S3 branch and does nothing: no translation, no URL,
\* no submission, no call of the HTTP handler, no exception, None returned.
C1_Classification ==
    pc # "idle" =>
        /\ (branch = "s3") <=> AllRecordsHaveS3
        /\ branch = "s3" => httpCalls = <<>>
        /\ branch # "s3" => (branch = "http" /\ Len(httpCalls) = 1)
        /\ (HasKey(event, "Records") /\ event.Records = <<>>) =>
              /\ branch = "s3"
              /\ calls = <<>>
              /\ serial = 0
              /\ httpCalls = <<>>
              /\ pc # "raised"
              /\ pc = "returned" => result = None

C1_Witness ==
    /\ pc = "returned"
    /\ HasKey(event, "Records")
    /\ event.Records = <<>>
    /\ branch = "s3"
    /\ result = None

\* C6: on the HTTP branch the handler is called exactly once with the event
\* and the context of the invocation, what it gives back is what
\* lambda_handler returns, and nothing is translated, signed or submitted.
C6_HttpFrame ==
    (pc # "idle" /\ branch = "http") =>
        /\ httpCalls = <<[event |-> event, context |-> context]>>
        /\ result = handlerOut
        /\ calls = <<>>
        /\ serial = 0

C6_Witness ==
    /\ pc = "returned"
    /\ branch = "http"
    /\ event = [httpMethod |-> "GET", path |-> <<"matches", "x">>]
    /\ result.status = 200
    /\ Len(httpCalls) = 1

\* C10: a payload whose Records collection has an element without an "s3"
\* key has none of its records translated or submitted and is handed whole
\* to the HTTP handler; no invocation both calls a collaborator of the S3
\* branch and calls the HTTP handler.
C10_AllOrNothing ==
    /\ (pc # "idle" /\ SomeRecordLacksS3) =>
          /\ calls = <<>>
          /\ serial = 0
          /\ branch = "http"
          /\ httpCalls = <<[event |-> event, context |-> context]>>
    /\ ~(calls # <<>> /\ httpCalls # <<>>)

C10_Witness ==
    /\ pc \in {"returned", "raised"}
    /\ HasKey(event, "Records")
    /\ Len(event.Records) = 2
    /\ event.Records[1] \in WellFormedRecords
    /\ event.Records[1].s3.object.size # 0
    /\ event.Records[2] \in ForeignRecords
    /\ Len(httpCalls) = 1

\* the invocation was an HTTP request that the application answered
HttpAnswered == pc = "returned" /\ branch = "http"

Is404 ==
    /\ result.status = 404
    /\ result.body = "{\"error\": \"404\"}"
    /\ result.content_type = "application/json"

\* the request path has none of the seven mounted prefixes as a prefix
NoMountedPrefix ==
    \A first \in {"action-rules", "matches", "content", "submit", "datasets",
                  "stats", "actions"} :
        ~(Len(event.path) >= 2 /\ event.path[1] = first)

\* C7 as stated: every request whose path has no mounted prefix is answered
\* with status 404, body {"error": "404"} and content type application/json.
C7_Original == (HttpAnswered /\ NoMountedPrefix) => Is404

\* C7, amended: every request whose path has no mounted prefix and is not the
\* root path "/" is answered with status 404, body {"error": "404"} and
\* content type application/json.
C7_NotFound == (HttpAnswered /\ NoMountedPrefix /\ event.path # <<"">>) => Is404

C7_Witness ==
    /\ HttpAnswered
    /\ event.path = <<"unknown", "">>
    /\ Is404

\* C8: an exception raised by a handler does not escape: the invocation
\* returns a response with status 500, content type application/json and the
\* body {"error": "500"} whatever the exception is, and the exception is in
\* the log.
C8_HandlerFault ==
    (pc # "idle" /\ fault # None) =>
        /\ pc = "returned"
        /\ result = [status |-> 500, content_type |-> "application/json",
                     body |-> "{\"error\": \"500\"}"]
        /\ \E l \in 1..Len(log) : log[l].level = "exception" /\ log[l].exc_info = fault

C8_Witness ==
    /\ pc = "returned"
    /\ fault = [exception |-> "ClientError", key |-> "hma-secret-table"]
    /\ result.status = 500

\* the element has every key the S3 branch reads
IsWellFormed(rec) ==
    /\ HasKey(rec, "s3")
    /\ HasKey(rec.s3, "bucket") /\ HasKey(rec.s3.bucket, "name")
    /\ HasKey(rec.s3, "object")
    /\ HasKey(rec.s3.object, "key") /\ HasKey(rec.s3.object, "size")

\* the element's object size is 0, whatever else it has or lacks
HasZeroSize(rec) ==
    /\ HasKey(rec, "s3")
    /\ HasKey(rec.s3, "object")
    /\ HasKey(rec.s3.object, "size")
    /\ rec.s3.object.size = 0

OnS3Branch == pc # "idle" /\ branch = "s3"

CallsOf(op) == SelectSeq(calls, LAMBDA c : c.op = op)

Submitted(i) ==
    \E c \in 1..Len(calls) : calls[c].op = "submit_from_url" /\ calls[c].idx = i

\* C2: when the invocation of the S3 branch is over, every well-formed record
\* of non-zero size that stands after a record that failed has been
\* submitted.
C2_Isolation ==
    (OnS3Branch /\ pc = "raised") =>
        \A i \in (idx + 1)..Len(event.Records) :
            (IsWellFormed(event.Records[i]) /\ ~HasZeroSize(event.Records[i]))
                => Submitted(i)

\* No call is made for a record of size 0 and no exception is raised at it.
C3_NoEffect ==
    OnS3Branch =>
        \A i \in 1..Len(event.Records) :
            HasZeroSize(event.Records[i]) =>
                /\ \A c \in 1..Len(calls) : calls[c].idx # i
                /\ ~(pc = "raised" /\ idx = i)

\* The loop's turn on a record of size 0 changes the position in the batch
\* and nothing else.
C3_Step ==
    (/\ pc = "process_s3_event"
     /\ idx <= Len(event.Records)
     /\ HasZeroSize(event.Records[idx]))
        => /\ idx' = idx + 1
           /\ UNCHANGED <<pc, event, context, branch, calls, serial, httpCalls,
                          handlerOut, fault, result, log>>

\* C3: for a record of size 0 the translator is not invoked, no URL is
\* issued, nothing is submitted and no exception is raised, also when the
\* record has no bucket name or no object key; the loop's turn on it leaves
\* everything but the position as it was, so that a batch with such a record
\* added or repeated makes the same submissions.
C3_EmptyObjects == []C3_NoEffect /\ [][C3_Step]_vars

C3_Witness ==
    /\ pc = "returned"
    /\ branch = "s3"
    /\ Len(event.Records) = 3
    /\ HasZeroSize(event.Records[1]) /\ ~HasKey(event.Records[1].s3, "bucket")
    /\ event.Records[2] = event.Records[1]
    /\ Submitted(3)
    /\ Len(calls) = 3

\* C4: for a well-formed record with bucket name B and object key K the
\* translator asks for exactly one URL, with the arguments (B, K, None, 3600,
\* "get_object"), and the request it makes has content id B + "/" + K,
\* submission type FROM_URL, content type PHOTO, that URL as its content
\* reference and no additional fields.
C4_Translation ==
    OnS3Branch =>
        \A c \in 1..Len(calls) :
            LET i == calls[c].idx
                B == event.Records[i].s3.bucket.name
                K == event.Records[i].s3.object.key
            IN /\ calls[c].op = "create_presigned_url" =>
                    /\ calls[c].args = [bucket |-> B, key |-> K, version |-> None,
                                        expiration |-> 3600,
                                        client_method |-> "get_object"]
                    /\ \A d \in 1..Len(calls) :
                          (calls[d].op = "create_presigned_url" /\ calls[d].idx = i)
                              => d = c
               /\ calls[c].op = "submit_from_url" =>
                    LET rq == calls[c].request
                        url == rq.content_bytes_url_or_file_type
                    IN /\ rq.content_id = B \o <<"/">> \o K
                       /\ rq.submission_type = "FROM_URL"
                       /\ rq.content_type = "PHOTO"
                       /\ rq.additional_fields = None
                       /\ DOMAIN rq = {"submission_type", "content_id", "content_type",
                                       "content_bytes_url_or_file_type",
                                       "additional_fields"}
                       /\ c > 1
                       /\ calls[c - 1].op = "create_presigned_url"
                       /\ calls[c - 1].idx = i
                       /\ url.bucket = calls[c - 1].args.bucket
                       /\ url.key = calls[c - 1].args.key
                       /\ url.version = calls[c - 1].args.version
                       /\ url.expires_in = calls[c - 1].args.expiration
                       /\ url.client_method = calls[c - 1].args.client_method

C4_Witness ==
    /\ pc = "returned"
    /\ branch = "s3"
    /\ Len(event.Records) = 1
    /\ Len(calls) = 3
    /\ calls[3].op = "submit_from_url"
    /\ calls[3].request.content_id = <<"i", "m", "g", "s", "/", "a", ".", "j", "p", "g">>

\* the positions of the records of non-zero size, in batch order
NonEmptyPositions ==
    SelectSeq([i \in 1..Len(event.Records) |-> i],
              LAMBDA i : ~HasZeroSize(event.Records[i]))

\* C9: when the S3 branch returns (no record was malformed, no collaborator
\* failed), the submissions are those of the records of non-zero size, each
\* once and in batch order; at any time the calls are in batch order, a URL
\* is asked for right before the submission of the same record and is handed
\* to that submission alone.
C9_Sequential ==
    OnS3Branch =>
        /\ pc = "returned" =>
              LET subs == CallsOf("submit_from_url") IN
              /\ Len(subs) = Len(NonEmptyPositions)
              /\ \A j \in 1..Len(subs) :
                    /\ subs[j].idx = NonEmptyPositions[j]
                    /\ subs[j].request.content_id =
                          event.Records[subs[j].idx].s3.bucket.name \o <<"/">>
                              \o event.Records[subs[j].idx].s3.object.key
        /\ \A c, d \in 1..Len(calls) : c < d => calls[c].idx <= calls[d].idx
        /\ \A c \in 1..Len(calls) :
              /\ calls[c].op = "create_presigned_url" =>
                    \/ c = Len(calls) /\ pc = "raised"
                    \/ /\ c < Len(calls)
                       /\ calls[c + 1].op = "submit_from_url"
                       /\ calls[c + 1].idx = calls[c].idx
              /\ calls[c].op = "submit_from_url" =>
                    /\ c > 1
                    /\ calls[c - 1].op = "create_presigned_url"
                    /\ calls[c - 1].idx = calls[c].idx
                    /\ \A d \in 1..Len(calls) :
                          (/\ calls[d].op = "submit_from_url"
                           /\ calls[d].request.content_bytes_url_or_file_type =
                                 calls[c].request.content_bytes_url_or_file_type)
                              => d = c

C9_Witness ==
    /\ pc = "returned"
    /\ branch = "s3"
    /\ Len(event.Records) = 3
    /\ HasZeroSize(event.Records[2])
    /\ event.Records[1] = event.Records[3]
    /\ Submitted(1) /\ Submitted(3)
    /\ Len(CallsOf("submit_from_url")) = 2

\* the name holds no "/"
NoSlash(name) == \A j \in 1..Len(name) : name[j] # "/"

SamePair ==
    /\ pairIn[1].bucket.name = pairIn[2].bucket.name
    /\ pairIn[1].object.key = pairIn[2].object.key

SameContentId == pairOut[1].content_id = pairOut[2].content_id

\* C5 as stated: two records that differ in bucket name or in object key get
\* different content ids, and two records with the same bucket name and
\* object key get the same content id.
C5_Original == pairOut # <<>> => (SamePair <=> SameContentId)

\* C5, amended: two records whose bucket names hold no "/" and that differ
\* in bucket name or in object key get different content ids, and two records
\* with the same bucket name and object key get the same content id.
C5_NoCollision ==
    pairOut # <<>> =>
        /\ SamePair => SameContentId
        /\ (NoSlash(pairIn[1].bucket.name) /\ NoSlash(pairIn[2].bucket.name))
              => (SameContentId => SamePair)

C5_Witness ==
    /\ pairOut # <<>>
    /\ pairIn[1].bucket.name = <<"a">>
    /\ pairIn[1].object.key = <<"/", "a">>
    /\ pairIn[2].bucket.name = <<"a", "a">>
    /\ pairIn[2].object.key = <<"a">>
    /\ ~SameContentId

====
